---- MODULE Spec2Model ----
(***************************************************************************)
(* Model of src/app.py: the Function Compute entry point `handler`, the    *)
(* AI client `get_ai_response` and the local test server `RequestHandler`. *)
(*                                                                         *)
(* Python values are tagged records: t is the Python type.  A str is       *)
(* either literal text ([t, s]), the text json.dumps produced for a value  *)
(* ([t, json]), an f-string ([t, s, ...]) or a strftime result             *)
(* ([t, chars]).  A dict is [t |-> "dict", key |-> value, ...]; a key      *)
(* whose value is Missing is not in the dict.                              *)
(***************************************************************************)
EXTENDS Integers, Sequences, FiniteSets, TLC

VARIABLES
    apiKey,        \* MODEL_STUDIO_API_KEY, read once at import
    pc,            \* "idle", "primary" (line 219 blocked), "secondary" (line 240 blocked), "done"
    entry,         \* who called handler: "platform", "do_POST", "do_GET"
    event,         \* handler's event argument
    body_str,      \* handler locals, lines 35-89
    body,
    user_message,
    user_id,
    calls,         \* the requests.post calls made so far, in order
    outcomes,      \* what each call answered, in order
    reply,         \* what get_ai_response gave back to handler
    caught,        \* the exception handler's line 145 caught, if any
    result,        \* handler's return value
    wire           \* the response RequestHandler wrote to the socket

vars == <<apiKey, pc, entry, event, body_str, body, user_message, user_id,
          calls, outcomes, reply, caught, result, wire>>

---------------------------------------------------------------------------
(* Bounds of the input universe *)

MaxArrayLen == 1

(* Program constants *)

DebugDumpLimit == 500
MaxTokens == 500
RequestTimeout == 30

---------------------------------------------------------------------------
(* Python values *)

Missing == [t |-> "missing"]
None == [t |-> "NoneType"]
Int5 == [t |-> "int", n |-> 5]
Str(s) == [t |-> "str", s |-> s]
List(elems) == [t |-> "list", elems |-> elems]
EmptyDict == [t |-> "dict"]
Bytes == [t |-> "bytes"]

\* json.dumps(v): the JSON text of v.
Dumps(v) == [t |-> "str", json |-> v]

Ok(v) == [raised |-> FALSE, v |-> v]
Raise(exc, msg) == [raised |-> TRUE, exc |-> exc, msg |-> msg]
NoExc == [raised |-> FALSE]

\* key in d, for a dict d
HasKey(d, k) == k \in DOMAIN d /\ k # "t" /\ d[k] # Missing

\* The literal texts of the model that contain a given word.
TextsContaining(word) ==
    CASE word = "message" -> {"message", "send message"}
      [] word = "body" -> {"body", "nobody"}
      [] word = "output" -> {"output", "no output"}
      [] word = "text" -> {"text", "plain text"}
      [] OTHER -> {word}

\* word in s, for a str s (substring test)
HasSub(s, word) ==
    IF "s" \in DOMAIN s THEN s.s \in TextsContaining(word)
    ELSE IF "json" \in DOMAIN s /\ s.json.t = "dict" THEN HasKey(s.json, word)
    ELSE FALSE

\* json.loads(s), for a str s
Loads(s) ==
    IF "json" \in DOMAIN s THEN Ok(s.json)
    ELSE Raise("JSONDecodeError", "Expecting value: line 1 column 1 (char 0)")

\* bool(s), for a str s
Truthy(s) == s # Str("")

\* s.strip() is a non-empty str
NonBlank(s) == s \notin {Str(""), Str("  ")}

\* word in c
Contains(word, c) ==
    CASE c.t = "dict" -> Ok(HasKey(c, word))
      [] c.t = "str" -> Ok(HasSub(c, word))
      [] c.t = "list" -> Ok(\E i \in DOMAIN c.elems : c.elems[i] = Str(word))
      [] OTHER -> Raise("TypeError", "argument is not iterable")

\* c[word]
GetItem(c, word) ==
    CASE c.t = "dict" -> IF HasKey(c, word) THEN Ok(c[word]) ELSE Raise("KeyError", word)
      [] c.t = "str" -> Raise("TypeError", "string indices must be integers")
      [] c.t = "list" -> Raise("TypeError", "list indices must be integers or slices, not str")
      [] OTHER -> Raise("TypeError", "object is not subscriptable")

\* c.get(word, default)
Get(c, word, default) ==
    IF c.t = "dict" THEN Ok(IF HasKey(c, word) THEN c[word] ELSE default)
    ELSE Raise("AttributeError", "object has no attribute 'get'")

\* v.strip(), as the truth value line 92 tests
Strip(v) ==
    IF v.t = "str" THEN Ok(NonBlank(v))
    ELSE Raise("AttributeError", "object has no attribute 'strip'")

---------------------------------------------------------------------------
(* datetime.now().strftime('%Y-%m-%d %H:%M:%S') *)

Digit == <<"0", "1", "2", "3", "4", "5", "6", "7", "8", "9">>

Pow10(k) == IF k = 0 THEN 1 ELSE IF k = 1 THEN 10 ELSE IF k = 2 THEN 100 ELSE 1000

\* n zero-padded to at least w digits (%Y, %m, %d, %H, %M, %S)
Padded(n, w) == [i \in 1..w |-> Digit[((n \div Pow10(w - i)) % 10) + 1]]

Strftime(now) ==
    [t |-> "str",
     chars |-> Padded(now.year, 4) \o <<"-">> \o Padded(now.month, 2) \o <<"-">>
               \o Padded(now.day, 2) \o <<" ">> \o Padded(now.hour, 2) \o <<":">>
               \o Padded(now.minute, 2) \o <<":">> \o Padded(now.second, 2)]

\* The instants datetime.now() may give.
Clock ==
    {[year |-> 2024, month |-> 2, day |-> 29, hour |-> 0, minute |-> 0, second |-> 7],
     [year |-> 2026, month |-> 11, day |-> 5, hour |-> 23, minute |-> 59, second |-> 59]}

---------------------------------------------------------------------------
(* handler: results *)

CorsFull ==
    ("Access-Control-Allow-Origin" :> "*")
    @@ ("Access-Control-Allow-Methods" :> "POST, GET, OPTIONS")
    @@ ("Access-Control-Allow-Headers" :> "Content-Type")

JsonType == ("Content-Type" :> "application/json")

HttpResult(status, headers, text) ==
    [t |-> "dict", statusCode |-> status, headers |-> headers, body |-> text]

\* lines 99-114
PostResult(response, now) ==
    HttpResult(200, JsonType @@ CorsFull,
               Dumps([t |-> "dict", response |-> response, timestamp |-> Strftime(now)]))

\* lines 116-131
GetResult(now) ==
    HttpResult(200, JsonType @@ ("Access-Control-Allow-Origin" :> "*"),
               Dumps([t |-> "dict",
                      status |-> Str("AI Meal Planner is running!"),
                      message |-> Str("Send a POST request to chat with me."),
                      timestamp |-> Strftime(now)]))

\* lines 133-143
OptionsResult == HttpResult(200, CorsFull, Str(""))

\* f"Sorry, I encountered an error: {str(e)}"
ErrorStr(msg) == [t |-> "str", s |-> "Sorry, I encountered an error: ", arg |-> msg]

\* lines 145-160
ErrorResult(msg, now) ==
    HttpResult(500, JsonType @@ ("Access-Control-Allow-Origin" :> "*"),
               Dumps([t |-> "dict", response |-> ErrorStr(msg), timestamp |-> Strftime(now)]))

\* s[:500], on the length of s
Truncate(n) == IF n > DebugDumpLimit THEN DebugDumpLimit ELSE n

\* line 97: the f-string around json.dumps(event, indent=2)[:500], the dump being
\* n characters long
DebugStr(ev, n) ==
    [t |-> "str", s |-> "[DEBUG] Could not extract message. Event structure: ",
     dump |-> ev, indent |-> 2, shown |-> Truncate(n), tail |-> "..."]

---------------------------------------------------------------------------
(* handler: lines 22-97 *)

\* line 24: json.dumps(event) for the log line
LogEvent(ev) ==
    IF ev.t = "bytes"
    THEN Raise("TypeError", "Object of type bytes is not JSON serializable")
    ELSE Ok(Dumps(ev))

\* Variant of BodySource: event.data is looked at before event.body
BodySourceDataFirst(ev) ==
    IF HasKey(ev, "data") THEN ev.data
    ELSE IF HasKey(ev, "body") THEN ev.body
    ELSE Dumps(ev)

\* lines 35-50
BodySource(ev) ==
    IF HasKey(ev, "body") THEN ev.body
    ELSE IF HasKey(ev, "data") THEN ev.data
    ELSE Dumps(ev)

\* lines 56-68
ParseBody(ev, bs) ==
    IF bs.t = "str"
    THEN IF Truthy(bs)
         THEN LET r == Loads(bs) IN IF r.raised THEN ev ELSE r.v
         ELSE EmptyDict
    ELSE IF bs.t = "dict" THEN bs
    ELSE EmptyDict

Found(m, u) == Ok([user_message |-> m, user_id |-> u])

\* lines 81-87: the double-nested body, every exception swallowed
NestedMessage(text) ==
    LET inner == Loads(text) IN
    IF inner.raised THEN Found(Str(""), Str("anonymous"))
    ELSE LET m == Get(inner.v, "message", Str(""))
             u == Get(inner.v, "user_id", Str("anonymous"))
         IN IF m.raised THEN Found(Str(""), Str("anonymous"))
            ELSE IF u.raised THEN Found(m.v, Str("anonymous"))
            ELSE Found(m.v, u.v)

\* lines 71-87
ExtractMessage(b) ==
    LET direct == Contains("message", b) IN
    IF direct.raised THEN direct
    ELSE IF direct.v
    THEN LET m == GetItem(b, "message")
             u == Get(b, "user_id", Str("anonymous"))
         IN IF m.raised THEN m ELSE IF u.raised THEN u ELSE Found(m.v, u.v)
    ELSE LET nested == Contains("body", b) IN
         IF nested.raised THEN nested
         ELSE IF ~nested.v THEN Found(Str(""), Str("anonymous"))
         ELSE LET inner == GetItem(b, "body") IN
              IF inner.raised THEN inner
              ELSE IF inner.v.t = "str" THEN NestedMessage(inner.v)
              ELSE Found(Str(""), Str("anonymous"))

Frame(kind, exc, bs, b, m, u) ==
    [kind |-> kind, exc |-> exc, body_str |-> bs, body |-> b,
     user_message |-> m, user_id |-> u]

\* lines 33-97: kind is "ai" (line 94), "debug" (line 97) or "raise"
PostHead(ev) ==
    LET bs == BodySource(ev)
        b == ParseBody(ev, bs)
        x == ExtractMessage(b)
    IN IF x.raised THEN Frame("raise", x, bs, b, Str(""), Str("anonymous"))
       ELSE LET s == Strip(x.v.user_message) IN
            IF s.raised THEN Frame("raise", s, bs, b, x.v.user_message, x.v.user_id)
            ELSE Frame(IF s.v THEN "ai" ELSE "debug", NoExc, bs, b,
                       x.v.user_message, x.v.user_id)

\* lines 22-33, 116, 133: the dispatch on httpMethod
HandlerHead(ev) ==
    LET logged == LogEvent(ev) IN
    IF logged.raised THEN Frame("raise", logged, Missing, Missing, Missing, Missing)
    ELSE LET method == Get(ev, "httpMethod", Str("GET")) IN
         IF method.raised
         THEN Frame("raise", method, Missing, Missing, Missing, Missing)
         ELSE IF method.v = Str("POST") THEN PostHead(ev)
         ELSE IF method.v = Str("GET")
         THEN Frame("GET", NoExc, Missing, Missing, Missing, Missing)
         ELSE IF method.v = Str("OPTIONS")
         THEN Frame("OPTIONS", NoExc, Missing, Missing, Missing, Missing)
         ELSE Frame("fallthrough", NoExc, Missing, Missing, Missing, Missing)

---------------------------------------------------------------------------
(* get_ai_response *)

Unavailable ==
    Str("I'm having trouble connecting to the AI service. Please check that the API key is configured correctly.")

Canned ==
    Str("I received your message about meal planning! Here's a personalized suggestion: For a healthy vegetarian lunch, try a quinoa bowl with roasted vegetables, chickpeas, and tahini dressing. It's nutritious and delicious!")

ApiKeyTrouble ==
    Str("I'm having trouble with my API key. Please check that it's correctly configured. Meanwhile, here's a suggestion: For a healthy vegetarian lunch, try a colorful salad with quinoa, roasted vegetables, and protein like chickpeas or tofu!")

GenericFallback ==
    Str("I'm having some technical difficulties right now, but I'd love to help you plan healthy meals! For a vegetarian lunch, I suggest a nutrient-packed bowl with quinoa, fresh vegetables, and a protein source.")

ExceptionFallback ==
    Str("I received your message about meal planning. I'm having some technical difficulties right now, but here's a great suggestion: Try a Mediterranean-style quinoa bowl with chickpeas, cucumber, tomatoes, and olive oil dressing for a healthy vegetarian lunch!")

IntlUrl == "https://dashscope-intl.aliyuncs.com/api/v1/services/aigc/text-generation/generation"

RegionalUrl == "https://dashscope.aliyuncs.com/api/v1/services/aigc/text-generation/generation"

\* Variant of NoKey: the test is `is None`, and an empty key passes
NoKeyIsNone(key) == key = None

\* line 168: not MODEL_STUDIO_API_KEY
NoKey(key) == key \in {None, Str("")}

\* lines 190-213
Headers(key) == [Authorization |-> <<"Bearer ", key>>, ContentType |-> "application/json"]

Payload(message) ==
    [model |-> "qwen-turbo",
     messages |-> <<[role |-> "system", content |-> "You are a helpful AI meal planning assistant."],
                    [role |-> "user", content |-> message]>>,
     max_tokens |-> MaxTokens, temperature |-> "0.7"]

\* requests.post(url, headers=headers, json=data, timeout=30)
Post(url, key, message) ==
    [url |-> url, headers |-> Headers(key), json |-> Payload(message),
     timeout |-> RequestTimeout]

\* Variant of IsIntl: the test looks for the regional host
IsIntlRegional(url) == url = RegionalUrl

\* line 237: "dashscope-intl" in url
IsIntl(url) == url = IntlUrl

\* lines 228-229 and 245: 'output' in response_data and 'text' in response_data['output'],
\* then response_data['output']['text']
ExtractText(data) ==
    LET hasOutput == Contains("output", data) IN
    IF hasOutput.raised THEN hasOutput
    ELSE IF ~hasOutput.v THEN [raised |-> FALSE, found |-> FALSE]
    ELSE LET output == GetItem(data, "output") IN
         IF output.raised THEN output
         ELSE LET hasText == Contains("text", output.v) IN
              IF hasText.raised THEN hasText
              ELSE IF ~hasText.v THEN [raised |-> FALSE, found |-> FALSE]
              ELSE LET text == GetItem(output.v, "text") IN
                   IF text.raised THEN text
                   ELSE [raised |-> FALSE, found |-> TRUE, v |-> text.v]

\* lines 224-225 and 243-244: response.json() and the lookup, on a 200 response
ReadText(response) ==
    LET data == Loads(response.text) IN
    IF data.raised THEN data ELSE ExtractText(data.v)

\* Variant of StatusFallback: the test is against 403
StatusFallback403(status) == IF status = 403 THEN ApiKeyTrouble ELSE GenericFallback

\* lines 249-252
StatusFallback(status) == IF status = 401 THEN ApiKeyTrouble ELSE GenericFallback

\* lines 219-237: what follows the primary call's outcome o: "retry" (line 240) or a
\* return or a raised exception
AfterPrimary(url, o) ==
    IF o.t = "raise" THEN [kind |-> "end", r |-> Raise(o.exc, o.msg)]
    ELSE IF o.status_code = 200
    THEN LET x == ReadText(o) IN
         [kind |-> "end",
          r |-> IF x.raised THEN x ELSE IF x.found THEN Ok(x.v) ELSE Ok(Canned)]
    ELSE IF IsIntl(url) THEN [kind |-> "retry"]
    ELSE [kind |-> "end", r |-> Ok(StatusFallback(o.status_code))]

\* lines 240-252: what follows the retry's outcome o
AfterSecondary(o) ==
    IF o.t = "raise" THEN Raise(o.exc, o.msg)
    ELSE IF o.status_code = 200
    THEN LET x == ReadText(o) IN
         IF x.raised THEN x
         ELSE IF x.found THEN Ok(x.v)
         ELSE Ok(StatusFallback(o.status_code))
    ELSE Ok(StatusFallback(o.status_code))

\* Variant of Guarded: no except clause
Unguarded(r) == r

\* lines 166, 254-257: the try/except around the whole body
Guarded(r) == IF r.raised THEN Ok(ExceptionFallback) ELSE r

---------------------------------------------------------------------------
(* handler: from the reply of get_ai_response to the return *)

\* line 166-169: the API key check; "call" is line 219
AiStart(key) ==
    IF NoKey(key) THEN [kind |-> "end", r |-> Ok(Unavailable)] ELSE [kind |-> "call"]

\* An exception that leaves handler: no return value
Escaped(e) == [t |-> "escaped", exc |-> e.exc, msg |-> e.msg]

\* Variant of HandlerExcept: the clause catches less than Exception, and a
\* TypeError leaves handler
HandlerExceptNarrow(e, now) ==
    IF e.exc = "TypeError" THEN [caught |-> NoExc, result |-> Escaped(e)]
    ELSE [caught |-> e, result |-> ErrorResult(e.msg, now)]

\* lines 145-160: except Exception as e
HandlerExcept(e, now) == [caught |-> e, result |-> ErrorResult(e.msg, now)]

\* lines 94, 99-114, and 145-160 if get_ai_response raised
HandlerTail(r, now) ==
    IF r.raised THEN [reply |-> r] @@ HandlerExcept(r, now)
    ELSE [reply |-> r, caught |-> NoExc, result |-> PostResult(r.v, now)]

\* The paths of handler that make no outbound call: the frame h of HandlerHead to the
\* return value; n is the length of json.dumps(event, indent=2)
HandlerEnd(h, ev, key, now, n) ==
    CASE h.kind = "raise" -> [reply |-> Missing] @@ HandlerExcept(h.exc, now)
      [] h.kind = "GET" -> [reply |-> Missing, caught |-> NoExc, result |-> GetResult(now)]
      [] h.kind = "OPTIONS" -> [reply |-> Missing, caught |-> NoExc, result |-> OptionsResult]
      [] h.kind = "fallthrough" -> [reply |-> Missing, caught |-> NoExc, result |-> None]
      [] h.kind = "debug" ->
           [reply |-> Missing, caught |-> NoExc, result |-> PostResult(DebugStr(ev, n), now)]
      [] h.kind = "ai" -> HandlerTail(Guarded(AiStart(key).r), now)

---------------------------------------------------------------------------
(* RequestHandler *)

\* lines 284-289
ShimError(msg) ==
    [status |-> 500, headers |-> JsonType,
     body |-> Dumps([t |-> "dict", error |-> Str(msg)])]

\* lines 278-282 and 296-300
ShimWrite(res) ==
    IF res.t = "dict"
    THEN [status |-> res.statusCode, headers |-> res.headers, body |-> res.body]
    ELSE ShimError("'NoneType' object is not subscriptable")

\* lines 264-266
DecodeRequest(req) ==
    IF ~req.length_ok
    THEN Raise("ValueError", "invalid literal for int() with base 10")
    ELSE IF ~req.utf8_ok
    THEN Raise("UnicodeDecodeError", "'utf-8' codec can't decode byte")
    ELSE Loads(req.text)

\* lines 269-272
ShimPostEvent(b) == [t |-> "dict", httpMethod |-> Str("POST"), body |-> Dumps(b)]

\* line 293
ShimGetEvent == [t |-> "dict", httpMethod |-> Str("GET")]

---------------------------------------------------------------------------
(* Inputs *)

Arrays == UNION {[1..k -> {Str("message"), Int5}] : k \in 0..MaxArrayLen}

Messages == {Missing, Str("hi"), Str(""), Str("  "), Int5}

UserIds == {Missing, Str("u1")}

Dict3(m, u, b) == [t |-> "dict", message |-> m, user_id |-> u, body |-> b]

InnerValues ==
    {Dict3(m, u, Missing) : m \in Messages, u \in UserIds}
    \cup {Int5} \cup {List(a) : a \in Arrays}

NestedTexts == {Dumps(v) : v \in InnerValues} \cup {Str("{bad")}

BodyDicts ==
    {Dict3(m, u, b) : m \in Messages, u \in UserIds, b \in {Missing, Int5} \cup NestedTexts}

BodyValues ==
    BodyDicts \cup {Int5, None, Str("hi"), Str("send message"), Str("nobody")}
    \cup {List(a) : a \in Arrays}

BodyFields ==
    {None, Int5, Str(""), Str("  "), Str("{bad")}
    \cup {Dumps(v) : v \in BodyValues} \cup BodyDicts

Event(method, b, d, m) ==
    [t |-> "dict", httpMethod |-> method, body |-> b, data |-> d, message |-> m,
     user_id |-> Missing]

DataSample == Dumps(Dict3(Str("hi"), Str("u1"), Missing))

PostEvents ==
    {Event(Str("POST"), b, d, m) :
        b \in BodyFields, d \in {Missing, DataSample}, m \in {Missing, Str("hi")}}
    \cup {Event(Str("POST"), Missing, d, m) :
             d \in {Missing} \cup BodyFields, m \in {Missing, Str("hi")}}

OtherEvents ==
    {Event(method, b, Missing, Missing) :
        method \in {Missing, None, Int5, Str("GET"), Str("OPTIONS"), Str("PUT"), Str("DELETE")},
        b \in {Missing, DataSample}}
    \cup {Bytes}

Events == PostEvents \cup OtherEvents

Requests ==
    {[length_ok |-> FALSE, utf8_ok |-> TRUE, text |-> Str("")],
     [length_ok |-> TRUE, utf8_ok |-> FALSE, text |-> Str("")]}
    \cup {[length_ok |-> TRUE, utf8_ok |-> TRUE, text |-> x] :
             x \in {Str(""), Str("{bad")} \cup {Dumps(v) : v \in BodyValues}}

\* The lengths json.dumps(event, indent=2) may have.
DumpLens == {40, DebugDumpLimit - 1, DebugDumpLimit, DebugDumpLimit + 1, 2000}

Output(x) == [t |-> "dict", output |-> x]

TextOf(x) == [t |-> "dict", text |-> x]

\* What a 200 response may carry as its body.
UpstreamBodies ==
    {Str("<html>")}
    \cup {Dumps(v) : v \in
            {Output(TextOf(Str("Try lentil soup."))), Output(TextOf(Int5)),
             Output(TextOf(None)), Output(EmptyDict), EmptyDict,
             Output(Int5), Output(None), Output(Str("plain text")),
             Output(List(<<Str("text")>>)), List(<<Str("output")>>), None}}

ErrorBody == Dumps([t |-> "dict", code |-> Str("Error")])

\* What requests.post may do: raise, or return a response.
Outcomes ==
    {[t |-> "raise", exc |-> "Timeout", msg |-> "Read timed out."],
     [t |-> "raise", exc |-> "ConnectionError", msg |-> "Connection refused"]}
    \cup {[t |-> "response", status_code |-> 200, text |-> x] : x \in UpstreamBodies}
    \cup {[t |-> "response", status_code |-> c, text |-> ErrorBody] : c \in {401, 500}}

ApiKeys == {None, Str(""), Str("sk-0123456789abcdef")}

---------------------------------------------------------------------------
(* The state machine *)

Init ==
    /\ apiKey \in ApiKeys
    /\ pc = "idle"
    /\ entry = "none"
    /\ event = Missing
    /\ body_str = Missing
    /\ body = Missing
    /\ user_message = Missing
    /\ user_id = Missing
    /\ calls = <<>>
    /\ outcomes = <<>>
    /\ reply = Missing
    /\ caught = NoExc
    /\ result = Missing
    /\ wire = Missing

\* handler returns res to its caller `who`
Finish(who, end) ==
    /\ reply' = end.reply
    /\ caught' = end.caught
    /\ result' = end.result
    /\ wire' = IF who = "platform" THEN Missing ELSE ShimWrite(end.result)
    /\ pc' = "done"

\* handler(ev, context), called by `who`, up to its return or to line 219
Begin(who, ev) ==
    LET h == HandlerHead(ev) IN
    /\ entry' = who
    /\ event' = ev
    /\ body_str' = h.body_str
    /\ body' = h.body
    /\ user_message' = h.user_message
    /\ user_id' = h.user_id
    /\ outcomes' = <<>>
    /\ IF h.kind = "ai" /\ AiStart(apiKey).kind = "call"
       THEN /\ calls' = <<Post(IntlUrl, apiKey, h.user_message)>>
            /\ pc' = "primary"
            /\ UNCHANGED <<reply, caught, result, wire>>
       ELSE /\ calls' = <<>>
            /\ \E now \in Clock, n \in DumpLens :
                  Finish(who, HandlerEnd(h, ev, apiKey, now, n))

\* The platform runtime calls handler.
Invoke ==
    /\ pc = "idle"
    /\ \E ev \in Events : Begin("platform", ev)
    /\ UNCHANGED apiKey

\* RequestHandler.do_POST
do_POST ==
    /\ pc = "idle"
    /\ \E req \in Requests :
          LET d == DecodeRequest(req) IN
          IF d.raised
          THEN /\ entry' = "do_POST"
               /\ wire' = ShimError(d.msg)
               /\ pc' = "done"
               /\ UNCHANGED <<event, body_str, body, user_message, user_id, calls,
                              outcomes, reply, caught, result>>
          ELSE Begin("do_POST", ShimPostEvent(d.v))
    /\ UNCHANGED apiKey

\* RequestHandler.do_GET
do_GET ==
    /\ pc = "idle"
    /\ Begin("do_GET", ShimGetEvent)
    /\ UNCHANGED apiKey

\* line 240: the same headers and data, posted to the regional endpoint
Retry(first) == [first EXCEPT !.url = RegionalUrl]

\* line 219 returns or raises
PrimaryResponds ==
    /\ pc = "primary"
    /\ \E o \in Outcomes :
          LET a == AfterPrimary(calls[1].url, o) IN
          /\ outcomes' = Append(outcomes, o)
          /\ IF a.kind = "retry"
             THEN /\ calls' = Append(calls, Retry(calls[1]))
                  /\ pc' = "secondary"
                  /\ UNCHANGED <<reply, caught, result, wire>>
             ELSE /\ UNCHANGED calls
                  /\ \E now \in Clock : Finish(entry, HandlerTail(Guarded(a.r), now))
    /\ UNCHANGED <<apiKey, entry, event, body_str, body, user_message, user_id>>

\* line 240 returns or raises
SecondaryResponds ==
    /\ pc = "secondary"
    /\ \E o \in Outcomes :
          /\ outcomes' = Append(outcomes, o)
          /\ \E now \in Clock :
                Finish(entry, HandlerTail(Guarded(AfterSecondary(o)), now))
    /\ UNCHANGED <<apiKey, entry, event, body_str, body, user_message, user_id, calls>>

Next == Invoke \/ do_POST \/ do_GET \/ PrimaryResponds \/ SecondaryResponds

Spec == Init /\ [][Next]_vars

---------------------------------------------------------------------------
(* Vocabulary of the properties *)

\* handler was called and has come back
Returned == pc = "done" /\ result # Missing

IsPostEvent(ev) == ev.t = "dict" /\ "httpMethod" \in DOMAIN ev /\ ev.httpMethod = Str("POST")

\* Only the key body carries the request: no data, no top-level message.
BodyOnly(ev) ==
    /\ IsPostEvent(ev)
    /\ "body" \in DOMAIN ev
    /\ "data" \in DOMAIN ev => ev.data = Missing
    /\ "message" \in DOMAIN ev => ev.message = Missing

\* s reads YYYY-MM-DD HH:MM:SS
IsTimestamp(s) ==
    /\ s.t = "str"
    /\ "chars" \in DOMAIN s
    /\ Len(s.chars) = 19
    /\ \A i \in 1..19 :
          CASE i \in {5, 8} -> s.chars[i] = "-"
            [] i = 11 -> s.chars[i] = " "
            [] i \in {14, 17} -> s.chars[i] = ":"
            [] OTHER -> s.chars[i] \in {"0", "1", "2", "3", "4", "5", "6", "7", "8", "9"}

\* r is {statusCode: int, headers: mapping, body: str}
IsHttpResult(r) ==
    /\ r.t = "dict"
    /\ DOMAIN r = {"t", "statusCode", "headers", "body"}
    /\ r.statusCode \in Int
    /\ \A name \in DOMAIN r.headers : r.headers[name] \in STRING
    /\ r.body.t = "str"

\* text is the JSON object {response, timestamp}
IsChatResponse(text) ==
    /\ text.t = "str"
    /\ "json" \in DOMAIN text
    /\ text.json.t = "dict"
    /\ DOMAIN text.json = {"t", "response", "timestamp"}
    /\ IsTimestamp(text.json.timestamp)

HasCors(headers) ==
    /\ "Access-Control-Allow-Origin" \in DOMAIN headers
    /\ headers["Access-Control-Allow-Origin"] = "*"

\* The events the claim C1 names: a body that parses to a JSON scalar, a message
\* that is not a string, an event that is no mapping.
RaisingEvent(ev) ==
    \/ ev = Bytes
    \/ /\ BodyOnly(ev)
       /\ \/ ev.body \in {Dumps(Int5), Dumps(None)}
          \/ \E u \in UserIds : ev.body = Dumps(Dict3(Int5, u, Missing))

---------------------------------------------------------------------------
(* C1: handler lets no exception escape: whatever the event, an exception      *)
(* raised while it is processed is caught, and the call returns statusCode 500 *)
(* with the JSON body {response: "Sorry, I encountered an error: <message>",   *)
(* timestamp}; a body that parses to a JSON scalar and a message that is not   *)
(* a string are such events.                                                   *)
C1_ExceptionsBecome500 ==
    Returned =>
        /\ result.t # "escaped"
        /\ RaisingEvent(event) => caught.raised
        /\ caught.raised =>
              /\ IsHttpResult(result)
              /\ result.statusCode = 500
              /\ IsChatResponse(result.body)
              /\ result.body.json.response =
                    [t |-> "str", s |-> "Sorry, I encountered an error: ",
                     arg |-> caught.msg]

C1_Witness ==
    /\ Returned
    /\ BodyOnly(event)
    /\ event.body = Dumps(Int5)
    /\ caught.raised
    /\ result.statusCode = 500

(* C2: whatever the event and its httpMethod (missing, or none of GET, POST,   *)
(* OPTIONS), what handler returns is a mapping with an integer statusCode, a   *)
(* headers mapping and a string body.                                          *)
C2_AlwaysHttpResult == Returned => IsHttpResult(result)

\* The well-formed body {"message": m, "user_id": u}, m a non-empty string
WellFormedBody(text) ==
    \E m \in Messages, u \in UserIds :
        /\ m.t = "str" /\ m # Str("")
        /\ u.t = "str"
        /\ text = Dumps(Dict3(m, u, Missing))

(* C3: a POST whose body is the well-formed JSON object {"message": m,         *)
(* "user_id": u}, m a non-empty string, returns statusCode 200 and a body      *)
(* {response: string, timestamp: YYYY-MM-DD HH:MM:SS}, whatever the upstream   *)
(* API did.                                                                    *)
C3_WellFormedPostIs200 ==
    (Returned /\ BodyOnly(event) /\ WellFormedBody(event.body)) =>
        /\ IsHttpResult(result)
        /\ result.statusCode = 200
        /\ IsChatResponse(result.body)
        /\ result.body.json.response.t = "str"

\* A body with no message to extract, in the shapes the claim C4 lists
NoMessageBody(b) ==
    \/ b \in {Str(""), Str("{bad")}
    \/ \E u \in UserIds : b = Dumps(Dict3(Missing, u, Missing))
    \/ \E a \in Arrays : b = Dumps(List(a))
    \/ b \in {Dumps(Int5), Dumps(None), Dumps(Str("hi"))}
    \/ \E m \in {Str(""), Str("  ")}, u \in UserIds : b = Dumps(Dict3(m, u, Missing))
    \/ \E u \in UserIds : b = Dumps(Dict3(Missing, Missing, Dumps(Dict3(Missing, u, Missing))))

\* The debug text: the pretty-printed dump of ev, cut to 500 characters
IsDebugOf(text, ev) ==
    /\ text.t = "str"
    /\ DOMAIN text = {"t", "s", "dump", "indent", "shown", "tail"}
    /\ text.s = "[DEBUG] Could not extract message. Event structure: "
    /\ text.dump = ev
    /\ text.indent = 2
    /\ text.shown <= 500

(* C4: a POST whose body holds no message to extract (empty, unparseable, a    *)
(* JSON object without message, a JSON array, a JSON scalar, a blank message,  *)
(* a nested body without message) returns statusCode 200 with the debug text   *)
(* that embeds the dump of the event cut to 500 characters.                    *)
C4_NoMessageIsDebug200 ==
    (Returned /\ BodyOnly(event) /\ NoMessageBody(event.body)) =>
        /\ IsHttpResult(result)
        /\ result.statusCode = 200
        /\ IsChatResponse(result.body)
        /\ IsDebugOf(result.body.json.response, event)

(* C5: with the API key absent (unset or empty), get_ai_response returns the   *)
(* "service unavailable" text and makes no outbound call, whatever the message *)
(* and user_id.                                                                *)
C5_NoKeyNoCall ==
    apiKey \in {None, Str("")} =>
        /\ calls = <<>>
        /\ (Returned /\ user_message.t = "str" /\ user_message \notin {Str(""), Str("  ")})
              => reply = Ok(Unavailable)

C5_Witness ==
    /\ Returned
    /\ apiKey = Str("")
    /\ user_message = Str("hi")
    /\ reply = Ok(Unavailable)
    /\ calls = <<>>

Is401(o) == o.t = "response" /\ o.status_code = 401

(* C6: when the primary endpoint returns 401, get_ai_response gives the "API   *)
(* key trouble" text, whatever the secondary endpoint then answers.            *)
C6_Primary401IsKeyTrouble ==
    (Returned /\ outcomes # <<>> /\ Is401(outcomes[1])) => reply = Ok(ApiKeyTrouble)

(* C6, amended: when the primary endpoint returns 401 and the secondary        *)
(* endpoint then returns 401 too, get_ai_response gives the "API key trouble"  *)
(* text.                                                                       *)
C6_Both401IsKeyTrouble ==
    (Returned /\ Len(outcomes) = 2 /\ Is401(outcomes[1]) /\ Is401(outcomes[2]))
        => reply = Ok(ApiKeyTrouble)

C6_Witness ==
    /\ Returned
    /\ Len(outcomes) = 2
    /\ Is401(outcomes[1])
    /\ Is401(outcomes[2])
    /\ reply = Ok(ApiKeyTrouble)

\* The call's outcome o makes get_ai_response raise inside: the call itself, the
\* decoding of the response, or the reading of output.text
RaisesInside(o) ==
    \/ o.t = "raise"
    \/ /\ o.t = "response"
       /\ o.status_code = 200
       /\ o.text \in {Str("<html>"), Dumps(None), Dumps(Output(Int5)), Dumps(Output(None))}

(* C7: get_ai_response never raises: when the primary call times out or        *)
(* raises, or a later step raises (the retry, the decoding of the response,    *)
(* the reading of output.text), it returns the exception fallback text, which  *)
(* is none of the other fixed replies, and handler sees no exception.          *)
C7_NeverRaises ==
    /\ reply # Missing => ~reply.raised
    /\ (Returned /\ outcomes # <<>> /\ RaisesInside(outcomes[Len(outcomes)])) =>
          /\ reply = Ok(ExceptionFallback)
          /\ ~caught.raised
          /\ result.statusCode = 200
    /\ ExceptionFallback \notin {Unavailable, Canned, ApiKeyTrouble, GenericFallback}

C7_Witness ==
    /\ Returned
    /\ Len(outcomes) = 1
    /\ outcomes[1].t = "raise"
    /\ outcomes[1].exc = "Timeout"
    /\ reply = Ok(ExceptionFallback)

(* C8: every response carries Access-Control-Allow-Origin: *: each HttpResult  *)
(* handler returns, and each response the local server writes, its own 500     *)
(* for a request body it cannot read or decode included.                       *)
C8_CorsEverywhere ==
    pc = "done" =>
        /\ result.t = "dict" => HasCors(result.headers)
        /\ wire # Missing => HasCors(wire.headers)

IsNon200(o) == o.t = "response" /\ o.status_code # 200

(* C9: in one get_ai_response invocation the primary (international) endpoint  *)
(* is called first; the secondary (regional) endpoint is called exactly once,  *)
(* with the same payload and headers, if and only if the primary call returned *)
(* a non-200 status; no call follows a 200 response or an exception; at most   *)
(* two calls are made.                                                         *)
C9_CallOrder ==
    /\ Len(calls) <= 2
    /\ Len(outcomes) <= Len(calls)
    /\ pc = "done" => Len(outcomes) = Len(calls)
    /\ calls # <<>> => calls[1].url = IntlUrl
    /\ Len(calls) = 2 =>
          /\ calls[2].url = RegionalUrl
          /\ calls[2].json = calls[1].json
          /\ calls[2].headers = calls[1].headers
          /\ IsNon200(outcomes[1])
    /\ (outcomes # <<>> /\ IsNon200(outcomes[1])) => Len(calls) = 2
    /\ (outcomes # <<>> /\ ~IsNon200(outcomes[1])) => (Len(calls) = 1 /\ pc = "done")
    /\ Len(outcomes) = 2 => pc = "done"

C9_Witness ==
    /\ pc = "done"
    /\ Len(calls) = 2
    /\ calls[1].url = IntlUrl
    /\ calls[2].url = RegionalUrl
    /\ outcomes[1].status_code = 500

\* The chain of the claim C10, on the event alone
ChainHas(d, k) == k \in DOMAIN d /\ d[k] # Missing

ChainSource(ev) ==
    IF ChainHas(ev, "body") THEN ev.body
    ELSE IF ChainHas(ev, "data") THEN ev.data
    ELSE [t |-> "str", json |-> ev]

ChainBody(ev) ==
    LET src == ChainSource(ev) IN
    IF src.t = "dict" THEN src
    ELSE IF "json" \in DOMAIN src THEN src.json
    ELSE ev

ChainPair(ev) ==
    LET b == ChainBody(ev) IN
    IF ChainHas(b, "message")
    THEN <<b.message, IF ChainHas(b, "user_id") THEN b.user_id ELSE Str("anonymous")>>
    ELSE IF /\ ChainHas(b, "body")
            /\ b.body.t = "str"
            /\ "json" \in DOMAIN b.body
            /\ b.body.json.t = "dict"
    THEN LET inner == b.body.json IN
         <<IF ChainHas(inner, "message") THEN inner.message ELSE Str(""),
           IF ChainHas(inner, "user_id") THEN inner.user_id ELSE Str("anonymous")>>
    ELSE <<Str(""), Str("anonymous")>>

\* The events the chain speaks of: a POST whose source is a mapping or a
\* non-empty string, and whose body is a mapping
ChainCase(ev) ==
    /\ IsPostEvent(ev)
    /\ ChainSource(ev).t \in {"str", "dict"}
    /\ ChainSource(ev) # Str("")
    /\ ChainBody(ev).t = "dict"

====
